---- MODULE Spec2Model ----
(***************************************************************************)
(* Model of chatbot.py: main() opens the tool channel (stdio_client and    *)
(* ClientSession), performs the handshake, discovers the tools, builds the *)
(* agent and runs the session loop invoke_graph().                         *)
(*                                                                         *)
(* Text is modelled as a sequence of one-character strings so that         *)
(* str.lower() and trimming are computed character by character.           *)
(***************************************************************************)
EXTENDS Integers, Sequences, FiniteSets, TLC

\* ---------------------------------------------------------------- bounds
\* Largest number of non-quit input lines the loop reads in one run.
MaxTurns == 2
\* Largest number of snapshots one agent stream yields.
MaxSnapshots == 2

\* ------------------------------------------------------------- constants
\* config = {"configurable": {"thread_id": "1"}}
THREAD_ID == "1"
\* the literal compared against user_input.lower()
QUIT_WORD == <<"q", "u", "i", "t">>
\* print("Exiting...")
EXIT_NOTICE == [kind |-> "notice", body |-> "Exiting..."]

\* ------------------------------------------------------------------ text
\* str.lower() on one character of the modelled alphabet.
LowerChar(c) ==
    CASE c = "Q" -> "q"
      [] c = "U" -> "u"
      [] c = "I" -> "i"
      [] c = "T" -> "t"
      [] c = "H" -> "h"
      [] OTHER -> c

\* str.lower(): every character lowered, length and order kept.
Lower(s) == [i \in DOMAIN s |-> LowerChar(s[i])]

\* The lines that input("User: ") can return in the model.
Lines ==
    { <<>>,
      <<"h", "i">>,
      <<"q", "u", "i", "t">>,
      <<"Q", "u", "i", "t">>,
      <<"Q", "U", "I", "T">>,
      <<" ", "q", "u", "i", "t", " ">>,
      <<"Q", "U", "I", "T", " ">> }

\* Whitespace characters of the modelled alphabet.
Blank == {" "}

\* The line without its leading and trailing blanks.
Strip(s) ==
    LET first == IF \E i \in DOMAIN s : s[i] \notin Blank
                 THEN CHOOSE i \in DOMAIN s :
                        /\ s[i] \notin Blank
                        /\ \A j \in 1..(i - 1) : s[j] \in Blank
                 ELSE 1
        last  == IF \E i \in DOMAIN s : s[i] \notin Blank
                 THEN CHOOSE i \in DOMAIN s :
                        /\ s[i] \notin Blank
                        /\ \A j \in (i + 1)..Len(s) : s[j] \in Blank
                 ELSE 0
    IN  SubSeq(s, first, last)

\* Variant of the quit test that trims the line before comparing.
IsQuitTrimmed(line) == Lower(Strip(line)) = QUIT_WORD

\* Variant of the quit test that compares without lowering.
IsQuitExact(line) == line = QUIT_WORD

\* if user_input.lower() == "quit":
IsQuit(line) == Lower(line) = QUIT_WORD

\* Variant of the history entry that stores the lowered line.
UserMessageLowered(line) == [role |-> "user", content |-> Lower(line)]

\* {"role": "user", "content": user_input}
UserMessage(line) == [role |-> "user", content |-> line]

\* Variant of the append that restarts the history at every turn.
AppendUserFresh(msgs, line) == <<UserMessage(line)>>

\* messages.append({"role": "user", "content": user_input})
AppendUser(msgs, line) == Append(msgs, UserMessage(line))

\* Variant of the agent input that passes only the newest message.
AgentInputLatest(msgs) == <<msgs[Len(msgs)]>>

\* graph.astream({"messages": messages}, ...): the whole history is passed.
AgentInput(msgs) == msgs

\* Variant of the printed message that takes the first one of the snapshot.
PrintedMessageFirst(event) == event.messages[1]

\* event["messages"][-1]
PrintedMessage(event) == event.messages[Len(event.messages)]

\* pretty_print() of one message writes one block to standard output.
PrettyPrint(m) == [kind |-> "message", body |-> m]

\* Messages the agent can add to its state while it answers one turn.
AgentMsgs ==
    { [role |-> "ai", content |-> <<"o", "k">>],
      [role |-> "tool", content |-> <<"r">>] }

\* Sets of tools the external tool server can expose.
ToolSets == { {"search"}, {"search", "write"} }

VARIABLES
    pc,           \* position of main() / invoke_graph()
    err,          \* the error that is propagating, "none" if there is none
    status,       \* how asyncio.run(main()) finished: "running", "ok", "error"
    subprocess,   \* docker subprocess: "none", "running", "terminated"
    session,      \* ClientSession: "none", "open", "closed"
    serverTools,  \* tools the external server exposes right now
    tools,        \* result of load_mcp_tools(session)
    agentTools,   \* tools bound into the agent by create_react_agent
    startup,      \* startup steps attempted so far, in order
    messages,     \* the history list of invoke_graph
    stdinLog,     \* lines returned by input() so far
    calls,        \* graph.astream calls made so far
    streams,      \* number of agent streams currently open
    stream,       \* the open stream: snapshots yielded, agent messages added
    yielded,      \* every snapshot the streams produced, in order
    stdout        \* what the loop printed (prompts left out)

vars == <<pc, err, status, subprocess, session, serverTools, tools,
          agentTools, startup, messages, stdinLog, calls, streams, stream,
          yielded, stdout>>

NoStream == [n |-> 0, responses |-> <<>>]

Init ==
    /\ pc = "start"
    /\ err = "none"
    /\ status = "running"
    /\ subprocess = "none"
    /\ session = "none"
    /\ serverTools \in ToolSets
    /\ tools = {}
    /\ agentTools = {}
    /\ startup = <<>>
    /\ messages = <<>>
    /\ stdinLog = <<>>
    /\ calls = <<>>
    /\ streams = 0
    /\ stream = NoStream
    /\ yielded = <<>>
    /\ stdout = <<>>

loopVars == <<messages, stdinLog, calls, streams, stream, yielded, stdout>>
chanVars == <<subprocess, session>>
toolVars == <<tools, agentTools>>

\* ------------------------------------------------------------ main()
\* async with stdio_client(StdioServerParameters(command="docker", ...)):
\* the subprocess is spawned on entering the scope.
EnterStdioClient ==
    /\ pc = "start"
    /\ startup' = Append(startup, "spawn")
    /\ subprocess' = "running"
    /\ pc' = "stdio_open"
    /\ UNCHANGED <<err, status, session, serverTools, toolVars, loopVars>>

\* The subprocess cannot be launched: the error leaves main() at once, no
\* scope has been entered yet.
EnterStdioClientFail ==
    /\ pc = "start"
    /\ startup' = Append(startup, "spawn")
    /\ err' = "spawn"
    /\ pc' = "stdio_closed"
    /\ UNCHANGED <<status, chanVars, serverTools, toolVars, loopVars>>

\* async with ClientSession(read, write) as session:
EnterClientSession ==
    /\ pc = "stdio_open"
    /\ session' = "open"
    /\ pc' = "session_open"
    /\ UNCHANGED <<err, status, subprocess, serverTools, toolVars, startup,
                   loopVars>>

\* await session.initialize()
Initialize ==
    /\ pc = "session_open"
    /\ startup' = Append(startup, "handshake")
    /\ pc' = "initialized"
    /\ UNCHANGED <<err, status, chanVars, serverTools, toolVars, loopVars>>

\* Variant of the failed handshake whose error is swallowed.
InitializeFailSwallowed ==
    /\ pc = "session_open"
    /\ startup' = Append(startup, "handshake")
    /\ err' = "handshake"
    /\ pc' = "initialized"
    /\ UNCHANGED <<status, chanVars, serverTools, toolVars, loopVars>>

\* await session.initialize() raises: the error unwinds both scopes.
InitializeFail ==
    /\ pc = "session_open"
    /\ startup' = Append(startup, "handshake")
    /\ err' = "handshake"
    /\ pc' = "raised"
    /\ UNCHANGED <<status, chanVars, serverTools, toolVars, loopVars>>

\* tools = await load_mcp_tools(session): the server's tools of this moment.
LoadTools ==
    /\ pc = "initialized"
    /\ startup' = Append(startup, "discover")
    /\ tools' = serverTools
    /\ pc' = "tools_loaded"
    /\ UNCHANGED <<err, status, chanVars, serverTools, agentTools, loopVars>>

\* load_mcp_tools raises: the error unwinds both scopes.
LoadToolsFail ==
    /\ pc = "initialized"
    /\ startup' = Append(startup, "discover")
    /\ err' = "discovery"
    /\ pc' = "raised"
    /\ UNCHANGED <<status, chanVars, serverTools, toolVars, loopVars>>

\* graph = create_chatbot(tools); await invoke_graph(graph) up to the first
\* input(): messages = [] and the loop is entered.
CreateChatbot ==
    /\ pc = "tools_loaded"
    /\ startup' = Append(startup, "build")
    /\ agentTools' = tools
    /\ messages' = <<>>
    /\ pc' = "awaiting"
    /\ UNCHANGED <<err, status, chanVars, serverTools, tools, stdinLog, calls,
                   streams, stream, yielded, stdout>>

\* The external tool server changes the tools it exposes.
ServerToolsChange ==
    /\ subprocess = "running"
    /\ \E ts \in ToolSets \ {serverTools} : serverTools' = ts
    /\ UNCHANGED <<pc, err, status, chanVars, toolVars, startup, loopVars>>

\* ------------------------------------------------------ invoke_graph()
\* Variant of the agent's tools that asks the server again at every turn.
ToolsRediscovered == serverTools

\* create_react_agent(model=llm, tools=tools, ...): the agent works with
\* the tools it was built with.
ToolsAtInvoke == agentTools

\* user_input = input("User: ") returns a line that passes the quit test:
\* print("Exiting...") and break.
ReadQuit(line) ==
    /\ pc = "awaiting"
    /\ IsQuit(line)
    /\ stdinLog' = Append(stdinLog, line)
    /\ stdout' = Append(stdout, EXIT_NOTICE)
    /\ pc' = "terminated"
    /\ UNCHANGED <<err, status, chanVars, serverTools, toolVars, startup,
                   messages, calls, streams, stream, yielded>>

\* user_input = input("User: ") returns any other line: it is appended to
\* the history and graph.astream is called with the history.
ReadTurn(line) ==
    /\ pc = "awaiting"
    /\ ~IsQuit(line)
    /\ Len(calls) < MaxTurns
    /\ stdinLog' = Append(stdinLog, line)
    /\ messages' = AppendUser(messages, line)
    /\ calls' = Append(calls, [messages  |-> AgentInput(messages'),
                               thread_id |-> THREAD_ID,
                               tools     |-> ToolsAtInvoke])
    /\ streams' = streams + 1
    /\ stream' = NoStream
    /\ pc' = "streaming"
    /\ UNCHANGED <<err, status, chanVars, serverTools, toolVars, startup,
                   yielded, stdout>>

\* input() raises (end of input, interrupt): nothing in the loop catches it.
ReadFail ==
    /\ pc = "awaiting"
    /\ err' = "input"
    /\ pc' = "raised"
    /\ UNCHANGED <<status, chanVars, serverTools, toolVars, startup, loopVars>>

\* One step of `async for event in graph.astream(..., stream_mode="values")`
\* with its body: the stream yields a snapshot of the agent's messages and
\* the loop prints the last message of it.  The first snapshot is the input;
\* every later one has one more message added by the agent.
StreamNext ==
    /\ pc = "streaming"
    /\ stream.n < MaxSnapshots
    /\ \E add \in IF stream.n = 0 THEN {<<>>} ELSE {<<r>> : r \in AgentMsgs} :
         LET responses == stream.responses \o add
             event == [messages |-> calls[Len(calls)].messages \o responses]
         IN  /\ stream' = [n |-> stream.n + 1, responses |-> responses]
             /\ yielded' = Append(yielded, event)
             /\ stdout' = Append(stdout, PrettyPrint(PrintedMessage(event)))
    /\ UNCHANGED <<pc, err, status, chanVars, serverTools, toolVars, startup,
                   messages, stdinLog, calls, streams>>

\* Variant of the end of the stream that leaves the loop.
StreamEndBreak ==
    /\ pc = "streaming"
    /\ stream.n >= 1
    /\ streams' = streams - 1
    /\ stream' = NoStream
    /\ pc' = "terminated"
    /\ UNCHANGED <<err, status, chanVars, serverTools, toolVars, startup,
                   messages, stdinLog, calls, yielded, stdout>>

\* The stream is exhausted: the async for ends and the while loop goes back
\* to input().
StreamEnd ==
    /\ pc = "streaming"
    /\ stream.n >= 1
    /\ streams' = streams - 1
    /\ stream' = NoStream
    /\ pc' = "awaiting"
    /\ UNCHANGED <<err, status, chanVars, serverTools, toolVars, startup,
                   messages, stdinLog, calls, yielded, stdout>>

\* Variant of the streaming error that the loop catches, going on with the
\* next input.
StreamErrorCaught ==
    /\ pc = "streaming"
    /\ err' = "stream"
    /\ streams' = streams - 1
    /\ stream' = NoStream
    /\ pc' = "awaiting"
    /\ UNCHANGED <<status, chanVars, serverTools, toolVars, startup, messages,
                   stdinLog, calls, yielded, stdout>>

\* The stream raises instead of yielding: no try/except in invoke_graph, the
\* error leaves the loop and invoke_graph.
StreamError ==
    /\ pc = "streaming"
    /\ err' = "stream"
    /\ streams' = streams - 1
    /\ stream' = NoStream
    /\ pc' = "raised"
    /\ UNCHANGED <<status, chanVars, serverTools, toolVars, startup, messages,
                   stdinLog, calls, yielded, stdout>>

\* ----------------------------------------------- leaving main()'s scopes
\* The inner `async with ClientSession` exits, on return or on an error.
ExitClientSession ==
    /\ pc \in {"terminated", "raised"}
    /\ session' = "closed"
    /\ pc' = "session_closed"
    /\ UNCHANGED <<err, status, subprocess, serverTools, toolVars, startup,
                   loopVars>>

\* Variant of the outer scope's exit that leaves the subprocess running.
ExitStdioClientLeak ==
    /\ pc = "session_closed"
    /\ pc' = "stdio_closed"
    /\ UNCHANGED <<err, status, chanVars, serverTools, toolVars, startup,
                   loopVars>>

\* The outer `async with stdio_client` exits: the subprocess is terminated.
ExitStdioClient ==
    /\ pc = "session_closed"
    /\ subprocess' = "terminated"
    /\ pc' = "stdio_closed"
    /\ UNCHANGED <<err, status, session, serverTools, toolVars, startup,
                   loopVars>>

\* asyncio.run(main()) returns, or raises the error that left main().
AsyncioRun ==
    /\ pc = "stdio_closed"
    /\ status' = IF err = "none" THEN "ok" ELSE "error"
    /\ pc' = "ended"
    /\ UNCHANGED <<err, chanVars, serverTools, toolVars, startup, loopVars>>

Next ==
    \/ EnterStdioClient
    \/ EnterStdioClientFail
    \/ EnterClientSession
    \/ Initialize
    \/ InitializeFail
    \/ LoadTools
    \/ LoadToolsFail
    \/ CreateChatbot
    \/ ServerToolsChange
    \/ \E line \in Lines : ReadQuit(line)
    \/ \E line \in Lines : ReadTurn(line)
    \/ ReadFail
    \/ StreamNext
    \/ StreamEnd
    \/ StreamError
    \/ ExitClientSession
    \/ ExitStdioClient
    \/ AsyncioRun

Spec == Init /\ [][Next]_vars

\* ------------------------------------------------ helpers of the claims
\* The line is the word quit, each letter in either case (stated without
\* str.lower()).
EqualsQuitAnyCase(line) ==
    /\ Len(line) = 4
    /\ line[1] \in {"q", "Q"}
    /\ line[2] \in {"u", "U"}
    /\ line[3] \in {"i", "I"}
    /\ line[4] \in {"t", "T"}

NotQuitLine(line) == ~EqualsQuitAnyCase(line)

\* The input lines read so far that are not the quit command, in order.
NonQuitLines == SelectSeq(stdinLog, NotQuitLine)

IsMessageBlock(e) == e.kind = "message"

\* The messages printed so far, in order.
PrintedBodies(out) ==
    LET blocks == SelectSeq(out, IsMessageBlock)
    IN  [i \in DOMAIN blocks |-> blocks[i].body]

\* How many times the exit notice was printed.
NoticeCount(out) == Cardinality({i \in DOMAIN out : out[i].kind = "notice"})

IsPrefix(a, b) == Len(a) <= Len(b) /\ SubSeq(b, 1, Len(a)) = a

\* The state of the session loop's state machine.
LoopState ==
    CASE pc = "awaiting"   -> "AWAITING_INPUT"
      [] pc = "streaming"  -> "STREAMING_RESPONSE"
      [] pc = "terminated" -> "TERMINATED"
      [] OTHER             -> "NONE"

StartupOrder == <<"spawn", "handshake", "discover", "build">>

StartupCount(step) ==
    Cardinality({i \in DOMAIN startup : startup[i] = step})

\* ---------------------------------------------------------------- claims
\* C1: a line that is quit in any letter casing ends the loop: the history
\* and the agent calls stay as they were, the exit notice is printed exactly
\* once, and nothing is read, printed or invoked by the loop afterwards.
C1_QuitAnyCaseTerminates ==
    /\ [][\A line \in Lines :
            (/\ EqualsQuitAnyCase(line)
             /\ pc = "awaiting"
             /\ stdinLog' = Append(stdinLog, line))
            => /\ messages' = messages
               /\ calls' = calls
               /\ streams' = streams
               /\ NoticeCount(stdout) = 0
               /\ NoticeCount(stdout') = 1
               /\ pc' = "terminated"]_vars
    /\ [][(\E i \in DOMAIN stdinLog : EqualsQuitAnyCase(stdinLog[i]))
            => /\ stdinLog' = stdinLog
               /\ messages' = messages
               /\ calls' = calls
               /\ stdout' = stdout
               /\ pc' \notin {"awaiting", "streaming"}]_vars

C1_Witness ==
    /\ pc = "terminated"
    /\ Len(messages) = 1
    /\ stdinLog # <<>>
    /\ stdinLog[Len(stdinLog)] = <<"Q", "U", "I", "T">>
    /\ NoticeCount(stdout) = 1

\* C2 as claimed: every line read that equals quit after trimming and
\* ignoring case ends the loop with the exit notice and is neither appended
\* to the history nor passed to the agent.
C2_TrimmedQuitTerminates ==
    \A i \in DOMAIN stdinLog :
        Lower(Strip(stdinLog[i])) = QUIT_WORD
        => /\ i = Len(stdinLog)
           /\ pc \notin {"awaiting", "streaming"}
           /\ NoticeCount(stdout) = 1
           /\ Len(messages) < i
           /\ Len(calls) < i

\* C2 amended: the quit test is applied to the line as read, without
\* trimming.  A line ends the loop iff it is quit in some letter casing;
\* every other line, also one that is quit only after trimming, is appended
\* to the history unchanged and the agent is invoked for it.
C2_UntrimmedQuitTest ==
    \A i \in DOMAIN stdinLog :
        IF EqualsQuitAnyCase(stdinLog[i])
        THEN /\ i = Len(stdinLog)
             /\ NoticeCount(stdout) = 1
             /\ Len(messages) = i - 1
             /\ Len(calls) = i - 1
        ELSE /\ i <= Len(messages)
             /\ messages[i].content = stdinLog[i]
             /\ i <= Len(calls)

C2_Witness ==
    /\ pc = "streaming"
    /\ \E i \in DOMAIN stdinLog :
         /\ stdinLog[i] = <<" ", "q", "u", "i", "t", " ">>
         /\ i = Len(messages)
         /\ messages[i].content = stdinLog[i]
         /\ Len(calls) = i

\* C3: every non-quit line, the empty one included, adds exactly one entry
\* to the history, with role user and the line unchanged as content, and the
\* entry is there when the agent is invoked; after k non-quit lines the
\* history has k entries.
C3_OneUserEntryPerTurn ==
    /\ Len(messages) = Len(NonQuitLines)
    /\ \A i \in DOMAIN messages :
         messages[i] = [role |-> "user", content |-> NonQuitLines[i]]
    /\ \A k \in DOMAIN calls :
         /\ calls[k].messages # <<>>
         /\ calls[k].messages[Len(calls[k].messages)] =
              [role |-> "user", content |-> NonQuitLines[k]]

C3_Witness ==
    /\ Len(messages) = 2
    /\ messages[1].content = <<"Q", "U", "I", "T", " ">>
    /\ messages[2] = [role |-> "user", content |-> <<>>]
    /\ Len(calls) = 2

\* C4: the history is append-only: in every step the old history is a
\* prefix of the new one.
C4_HistoryAppendOnly == [][IsPrefix(messages, messages')]_vars

C4_Witness ==
    /\ Len(messages) = 2
    /\ Len(yielded) >= 3
    /\ pc = "terminated"

\* C5: the loop starts in AWAITING_INPUT and moves only AWAITING_INPUT ->
\* STREAMING_RESPONSE, STREAMING_RESPONSE -> AWAITING_INPUT (stream
\* exhausted) and AWAITING_INPUT -> TERMINATED; a line is read only while no
\* stream is open and every snapshot produced has been printed; at most one
\* stream is open, and one is open exactly while streaming.
C5_LoopStateMachine ==
    /\ [][/\ (LoopState' # LoopState /\ LoopState' # "NONE")
             => <<LoopState, LoopState'>> \in
                  { <<"NONE", "AWAITING_INPUT">>,
                    <<"AWAITING_INPUT", "STREAMING_RESPONSE">>,
                    <<"STREAMING_RESPONSE", "AWAITING_INPUT">>,
                    <<"AWAITING_INPUT", "TERMINATED">> }
          /\ (LoopState = "NONE" /\ LoopState' # "NONE")
             => (stdinLog = <<>> /\ calls = <<>> /\ pc = "tools_loaded")
          /\ (LoopState = "STREAMING_RESPONSE" /\ LoopState' = "AWAITING_INPUT")
             => (streams' = 0 /\ yielded' = yielded /\ err' = "none")
          /\ stdinLog' # stdinLog
             => /\ LoopState = "AWAITING_INPUT"
                /\ streams = 0
                /\ Len(PrintedBodies(stdout)) = Len(yielded)]_vars
    /\ [](/\ streams \in {0, 1}
          /\ (streams = 1 <=> LoopState = "STREAMING_RESPONSE"))

C5_Witness ==
    /\ pc = "awaiting"
    /\ Len(messages) = 1
    /\ Len(yielded) = 2
    /\ streams = 0

\* C6: the agent is invoked exactly once per non-quit line, the k-th time
\* with the k user messages read so far in input order, always under the
\* session identifier "1"; the last message of every snapshot is printed
\* once, in the order the snapshots were produced.
C6_AgentCalledWithFullHistory ==
    /\ Len(calls) = Len(NonQuitLines)
    /\ \A k \in DOMAIN calls :
         /\ calls[k].messages =
              [i \in 1..k |-> [role |-> "user", content |-> NonQuitLines[i]]]
         /\ calls[k].thread_id = "1"
    /\ PrintedBodies(stdout) =
         [i \in DOMAIN yielded |->
            yielded[i].messages[Len(yielded[i].messages)]]

C6_Witness ==
    /\ Len(calls) = 2
    /\ Len(yielded) = 4
    /\ yielded[4].messages[Len(yielded[4].messages)].role = "tool"
    /\ pc = "awaiting"

\* C7: an error raised while streaming is not caught: it leaves the loop at
\* that step, after it nothing is read, printed (no snapshot, no exit
\* notice) or invoked, the loop is not entered again, and the run ends with
\* the error.
C7_StreamErrorIsFatal ==
    /\ [][/\ (pc = "streaming" /\ err' = "stream")
             => (pc' = "raised" /\ stdout' = stdout /\ streams' = 0)
          /\ err = "stream"
             => /\ err' = "stream"
                /\ stdinLog' = stdinLog
                /\ messages' = messages
                /\ calls' = calls
                /\ yielded' = yielded
                /\ stdout' = stdout
                /\ pc' \in {"raised", "session_closed", "stdio_closed",
                           "ended"}]_vars
    /\ []((err = "stream")
            => /\ NoticeCount(stdout) = 0
               /\ (pc = "ended" => status = "error"))

C7_Witness ==
    /\ pc = "ended"
    /\ err = "stream"
    /\ status = "error"
    /\ Len(calls) = 2
    /\ Len(yielded) = 3

\* C8: the subprocess runs and the client session is open whenever the loop
\* awaits input or streams; the subprocess is terminated only after the
\* session was closed; no run ends with the subprocess alive or the session
\* open, and a run whose loop ended (by quit or by an error) ends with the
\* session closed and the subprocess terminated.
C8_ChannelScopedAroundLoop ==
    /\ pc \in {"awaiting", "streaming", "terminated"}
         => (subprocess = "running" /\ session = "open")
    /\ subprocess = "terminated" => session = "closed"
    /\ pc = "ended" => (subprocess # "running" /\ session # "open")
    /\ (pc = "ended" /\ StartupCount("build") = 1)
         => (subprocess = "terminated" /\ session = "closed")

C8_Witness ==
    /\ pc = "ended"
    /\ err = "none"
    /\ status = "ok"
    /\ stdinLog # <<>>
    /\ subprocess = "terminated"
    /\ session = "closed"

\* C9: the startup steps are attempted in the order spawn, handshake,
\* discovery, build, each at most once; input is read only after all four
\* succeeded; when the spawn or the handshake fails, nothing after it is
\* attempted, no line is read and the run ends with the error.
C9_StartupOrderedFailFast ==
    /\ IsPrefix(startup, StartupOrder)
    /\ (stdinLog # <<>> \/ pc \in {"awaiting", "streaming", "terminated"})
         => /\ startup = StartupOrder
            /\ subprocess # "none"
            /\ session # "none"
            /\ tools \in ToolSets
            /\ agentTools = tools
            /\ err \notin {"spawn", "handshake", "discovery"}
    /\ err = "spawn"
         => (startup = <<"spawn">> /\ subprocess = "none" /\ session = "none")
    /\ err = "handshake" => startup = <<"spawn", "handshake">>
    /\ err \in {"spawn", "handshake"}
         => /\ stdinLog = <<>>
            /\ calls = <<>>
            /\ stdout = <<>>
            /\ tools = {}
            /\ agentTools = {}
            /\ pc \in {"raised", "session_closed", "stdio_closed", "ended"}
            /\ (pc = "ended" => status = "error")

C9_Witness ==
    /\ pc = "ended"
    /\ err = "handshake"
    /\ status = "error"
    /\ subprocess = "terminated"

\* C10: tools are discovered once and the agent is built once, before any
\* line is read; what was discovered is the server's set of that moment and
\* never changes afterwards; every agent call uses exactly that set, also
\* after the server changed its tools.
C10_ToolsFixedAtStartup ==
    /\ [][/\ (StartupCount("discover") = 0 /\ pc' = "tools_loaded")
             => tools' = serverTools
          /\ pc \notin {"start", "stdio_open", "session_open", "initialized"}
             => tools' = tools
          /\ StartupCount("build") = 1 => agentTools' = agentTools]_vars
    /\ [](/\ StartupCount("discover") <= 1
          /\ StartupCount("build") <= 1
          /\ (stdinLog # <<>>)
               => (StartupCount("discover") = 1 /\ StartupCount("build") = 1)
          /\ \A k \in DOMAIN calls : calls[k].tools = tools)

C10_Witness ==
    /\ Len(calls) = 2
    /\ serverTools # tools
    /\ calls[1].tools = tools
    /\ calls[2].tools = tools
    /\ pc = "streaming"
====
